---- MODULE Spec2Model ----
(***************************************************************************)
(* Workflow orchestration of the health-report pipeline.                   *)
(*                                                                         *)
(* The task graph of app/workflows/main_workflow.py is executed in         *)
(* supersteps: every node scheduled for a superstep reads the same state   *)
(* snapshot, the nodes of a superstep finish in any order, and their       *)
(* deltas are merged into the state when the superstep ends.  The nodes    *)
(* are the Tasks of app/agents (download_step, processing_step,            *)
(* curation_step, creation_step) and the join of main_workflow.py.         *)
(*                                                                         *)
(* A Python dict is a function whose domain is its set of keys; a key      *)
(* that is absent reads as None through Get.                               *)
(***************************************************************************)
EXTENDS Integers, Sequences, FiniteSets, TLC

VARIABLES
    state,      \* the channels of WorkflowState, as the engine holds them
    initial,    \* the initial_state mapping given to run_workflow
    tasks,      \* nodes scheduled in the current superstep, not yet run
    finished,   \* nodes that returned in the current superstep, in order of return
    writes,     \* node -> the delta it returned in the current superstep
    routing,    \* "none" | "pending" (join returned, router not yet evaluated) | "routed"
    branch,     \* destinations chosen by the conditional edge in this superstep
    phase,      \* "running" | "END" | "raised"
    stepNo,     \* number of the current superstep
    log,        \* history: <<node, superstep>> -> the record of that execution
    clock,          \* time.time(), in seconds
    _last_api_call, \* news_tools._last_api_call
    calls,          \* the calls process_news_article has made, with the time of each
    pc,             \* where process_news_article stands
    output_dir,     \* the files of settings.output_path
    reported,       \* the last execution of the Report Task on output_dir
    data_dir,       \* the files of settings.data_path
    stubs,          \* what the collaborators do when a run invokes them
    runs            \* the runs of the workflow made so far on data_dir

workflowVars == <<state, initial, tasks, finished, writes, routing, branch, phase, stepNo, log>>

toolVars == <<clock, _last_api_call, calls, pc, output_dir, reported, data_dir, stubs, runs>>

vars == <<state, initial, tasks, finished, writes, routing, branch, phase, stepNo, log,
          clock, _last_api_call, calls, pc, output_dir, reported, data_dir, stubs, runs>>

-----------------------------------------------------------------------------
(* Python values *)

None == "<None>"

EmptyDict == [k \in {} |-> None]

Get(d, k, default) == IF k \in DOMAIN d THEN d[k] ELSE default

\* bool(x) for an optional string: None and "" are falsy
Truthy(v) == v # None /\ v # ""

\* d1 updated with d2 (dict.update)
Update(d1, d2) == [k \in DOMAIN d1 \cup DOMAIN d2 |-> IF k \in DOMAIN d2 THEN d2[k] ELSE d1[k]]

Return(v) == [kind |-> "return", value |-> v]
Raise(e)  == [kind |-> "raise", value |-> e]

\* number of occurrences of x in the sequence s
Count(s, x) == Cardinality({i \in 1..Len(s) : s[i] = x})

-----------------------------------------------------------------------------
(* Bounds *)

MaxSearchResults == 2

-----------------------------------------------------------------------------
(* Values the collaborators produce *)

LocalDatasetPath == "data/INFLUD-local.csv"
DownloadedPath   == "data/INFLUD-downloaded.csv"
RefinedPath      == "data/refined_dataset.csv"
ReportPath       == "output/report.html"
default_topic    == "SRAG"

-----------------------------------------------------------------------------
(* download_dataset: the tool body under the tenacity retry decorator *)

StopAfterAttempt == 3

RetryOnDownload == {"RequestException", "ConnectionError"}

\* what one execution of the function body does for each thing that can
\* happen inside it
AttemptOutcomes == {"saved", "no_link", "request_exception", "other_exception"}

\* a body whose generic handler lets the exception out instead of returning ""
download_dataset_body_reraise(o) ==
    CASE o = "saved"             -> Return(DownloadedPath)
      [] o = "no_link"           -> Return("")
      [] o = "request_exception" -> Raise("RequestException")
      [] o = "other_exception"   -> Raise("Exception")

download_dataset_body(o) ==
    CASE o = "saved"             -> Return(DownloadedPath)
      [] o = "no_link"           -> Return("")
      [] o = "request_exception" -> Raise("RequestException")
      [] o = "other_exception"   -> Return("")

\* tenacity.retry(stop=stop_after_attempt(stop), retry=retry_if_exception_type(types)):
\* outs[n] is the outcome of the n-th execution of the body
RECURSIVE Retry(_, _, _, _)
Retry(outs, types, stop, n) ==
    LET r == outs[n] IN
    IF r.kind = "raise" /\ r.value \in types
    THEN IF n >= stop
         THEN [result |-> Raise("RetryError"), attempts |-> n]
         ELSE Retry(outs, types, stop, n + 1)
    ELSE [result |-> r, attempts |-> n]

\* a download without the retry decorator: the first exception propagates
download_dataset_unretried(os) ==
    [result |-> download_dataset_body(os[1]), attempts |-> 1]

download_dataset(os) ==
    Retry([n \in DOMAIN os |-> download_dataset_body(os[n])],
          RetryOnDownload, StopAfterAttempt, 1)

-----------------------------------------------------------------------------
(* Tasks of the data branch *)

\* existing_file: what find_latest_dataset returned; invoked: the result of
\* download_dataset.invoke (consulted only when no local file exists)
\* a download_step that calls the download collaborator whatever it found
download_step_invokes_always(existing_file) == TRUE

\* whether download_step gets as far as download_dataset.invoke
download_step_invokes(existing_file) == ~Truthy(existing_file)

\* a download_step that also fills in the topic
download_step_sets_topic(st, existing_file, invoked) ==
    IF Truthy(existing_file)
    THEN [raw_dataset_path |-> existing_file, topic |-> default_topic]
    ELSE IF invoked.kind = "raise"
         THEN [errors |-> <<"Dataset download exception">>]
         ELSE IF ~Truthy(invoked.value)
              THEN [errors |-> <<"Dataset download failed - no path returned">>]
              ELSE [raw_dataset_path |-> invoked.value, topic |-> default_topic]

download_step(st, existing_file, invoked) ==
    IF Truthy(existing_file)
    THEN [raw_dataset_path |-> existing_file]
    ELSE IF invoked.kind = "raise"
         THEN [errors |-> <<"Dataset download exception">>]
         ELSE IF ~Truthy(invoked.value)
              THEN [errors |-> <<"Dataset download failed - no path returned">>]
              ELSE [raw_dataset_path |-> invoked.value]

\* exists: os.path.exists(raw_path); validated: result of validate_columns.invoke;
\* cleaned: result of clean_dataset.invoke
selected_columns(validated) ==
    IF validated.kind = "raise" THEN <<>>
    ELSE IF validated.value = <<>> THEN <<>> ELSE validated.value

\* a processing_step without the check that raw_dataset_path is present
processing_step_unguarded(st, exists, validated, cleaned) ==
    IF cleaned.kind = "raise"
    THEN [errors |-> <<"Data cleaning failed">>]
    ELSE IF ~Truthy(cleaned.value)
    THEN [errors |-> <<"Data cleaning returned no file path">>]
    ELSE [refined_dataset_path |-> cleaned.value, metadata_valid |-> TRUE]

\* a processing_step that forgets the raw file when cleaning fails
processing_step_clears(st, exists, validated, cleaned) ==
    LET raw_path == Get(st, "raw_dataset_path", None) IN
    IF ~Truthy(raw_path)
    THEN [errors |-> <<"No raw dataset path available for processing">>]
    ELSE IF ~exists
    THEN [errors |-> <<"Raw dataset file not found">>]
    ELSE IF cleaned.kind = "raise"
    THEN [errors |-> <<"Data cleaning failed">>, raw_dataset_path |-> None]
    ELSE IF ~Truthy(cleaned.value)
    THEN [errors |-> <<"Data cleaning returned no file path">>, raw_dataset_path |-> None]
    ELSE [refined_dataset_path |-> cleaned.value, metadata_valid |-> TRUE]

processing_step(st, exists, validated, cleaned) ==
    LET raw_path == Get(st, "raw_dataset_path", None) IN
    IF ~Truthy(raw_path)
    THEN [errors |-> <<"No raw dataset path available for processing">>]
    ELSE IF ~exists
    THEN [errors |-> <<"Raw dataset file not found">>]
    ELSE IF cleaned.kind = "raise"
    THEN [errors |-> <<"Data cleaning failed">>]
    ELSE IF ~Truthy(cleaned.value)
    THEN [errors |-> <<"Data cleaning returned no file path">>]
    ELSE [refined_dataset_path |-> cleaned.value, metadata_valid |-> TRUE]

\* whether processing_step gets as far as calling its collaborators
processing_reaches_tools(st, exists) ==
    Truthy(Get(st, "raw_dataset_path", None)) /\ exists

-----------------------------------------------------------------------------
(* search_news and the Task of the news branch *)

RetryOnSearch == {"ConnectionError", "TimeoutError"}

\* one execution of the body: called is what the DuckDuckGo client call did.
\* Every exception is caught inside the body, which then returns the
\* results gathered so far (none).
search_news_body(called) ==
    IF called.kind = "return" THEN Return(called.value) ELSE Return(<<>>)

search_news(os) ==
    Retry([n \in DOMAIN os |-> search_news_body(os[n])],
          RetryOnSearch, StopAfterAttempt, 1)

NewsArticle(url) ==
    [title |-> "title", summary |-> "summary", original_link |-> url, date |-> "2025-01-01"]

\* a loop that is left at the first result whose curation raises
RECURSIVE curate_loop_stops(_, _, _)
curate_loop_stops(raw_results, curated, idx) ==
    IF idx > Len(raw_results) THEN <<>>
    ELSE LET url  == raw_results[idx].link
             rest == curate_loop_stops(raw_results, curated, idx + 1)
         IN IF ~Truthy(url) THEN rest
            ELSE IF curated[idx] = "article" THEN <<NewsArticle(url)>> \o rest
            ELSE IF curated[idx] = "raise" THEN <<>>
            ELSE rest

\* the loop over raw_results: curated[i] is what process_news_article.invoke
\* did for the i-th result ("article" | "none" | "raise")
RECURSIVE curate_loop(_, _, _)
curate_loop(raw_results, curated, idx) ==
    IF idx > Len(raw_results) THEN <<>>
    ELSE LET url  == raw_results[idx].link
             rest == curate_loop(raw_results, curated, idx + 1)
         IN IF ~Truthy(url) THEN rest
            ELSE IF curated[idx] = "article" THEN <<NewsArticle(url)>> \o rest
            ELSE rest

\* the URLs the loop hands to process_news_article.invoke, in order
RECURSIVE curate_calls(_, _)
curate_calls(raw_results, idx) ==
    IF idx > Len(raw_results) THEN <<>>
    ELSE IF Truthy(raw_results[idx].link)
         THEN <<raw_results[idx].link>> \o curate_calls(raw_results, idx + 1)
         ELSE curate_calls(raw_results, idx + 1)

curation_topic(st) ==
    LET t == Get(st, "topic", None) IN IF Truthy(t) THEN t ELSE default_topic

curation_step(st, searched, curated) ==
    LET updates == [topic |-> curation_topic(st), news_articles |-> <<>>] IN
    IF searched.kind = "raise"
    THEN Update(updates, [errors |-> <<"News search failed">>])
    ELSE IF searched.value = <<>>
    THEN updates
    ELSE Update(updates, [news_articles |-> curate_loop(searched.value, curated, 1)])

-----------------------------------------------------------------------------
(* The join and the router *)

START == "__start__"
END   == "__end__"

has_data(st) == Truthy(Get(st, "refined_dataset_path", None))
has_news(st) == Len(Get(st, "news_articles", <<>>)) > 0

\* a join that is satisfied by either branch
_join_step_either(st) ==
    LET marks == Update(IF has_data(st) THEN [data_complete |-> TRUE] ELSE EmptyDict,
                        IF has_news(st) THEN [news_complete |-> TRUE] ELSE EmptyDict)
    IN IF has_data(st) \/ has_news(st)
       THEN Update(marks, [ready_for_report |-> TRUE]) ELSE marks

_join_step(st) ==
    LET already_data_complete == Get(st, "data_complete", FALSE)
        already_news_complete == Get(st, "news_complete", FALSE)
        marks == Update(IF has_data(st) THEN [data_complete |-> TRUE] ELSE EmptyDict,
                        IF has_news(st) THEN [news_complete |-> TRUE] ELSE EmptyDict)
        data_will_be_complete == already_data_complete \/ has_data(st)
        news_will_be_complete == already_news_complete \/ has_news(st)
        both_complete == data_will_be_complete /\ news_will_be_complete
    IN IF both_complete THEN Update(marks, [ready_for_report |-> TRUE]) ELSE marks

\* a router that asks for either branch instead of both
should_generate_report_either(st) ==
    IF has_data(st) \/ has_news(st) THEN "report_node" ELSE END

should_generate_report(st) ==
    IF has_data(st) /\ has_news(st) THEN "report_node" ELSE END

-----------------------------------------------------------------------------
(* The Report Task *)

\* the mapping _calculate_metrics builds from the refined dataset (its
\* failures are caught inside and reported in the "error" entry)
_calculate_metrics(dataset_path) ==
    [datasource |-> dataset_path, total_notified |-> 0, error |-> None]

\* the local variable metrics of creation_step
report_metrics(st) ==
    LET refined_path == Get(st, "refined_dataset_path", None) IN
    IF Truthy(refined_path) THEN _calculate_metrics(refined_path)
    ELSE [total_cases |-> 0]

\* rendered: result of render_report.invoke; cleanup: what
\* cleanup_old_reports did ("ok" | "raise"), called only after a report
\* was written, inside the same try block
creation_step(st, rendered, cleanup) ==
    IF rendered.kind = "raise"
    THEN [errors |-> <<"Report creation failed">>]
    ELSE IF Truthy(rendered.value)
    THEN IF cleanup = "raise"
         THEN [final_report_path |-> rendered.value,
               errors |-> <<"Report creation failed">>]
         ELSE [final_report_path |-> rendered.value]
    ELSE [errors |-> <<"Report rendering failed - no path returned">>]

-----------------------------------------------------------------------------
(* The graph and the engine *)

Nodes == {"download_node", "process_data_node", "fetch_news_node", "join_node", "report_node"}

\* a graph that starts processing together with the download
Edges_process_from_start ==
    { <<START, "download_node">>, <<START, "fetch_news_node">>,
      <<START, "process_data_node">>,
      <<"download_node", "process_data_node">>,
      <<"process_data_node", "join_node">>,
      <<"fetch_news_node", "join_node">>,
      <<"report_node", END>> }

\* a graph in which the news branch does not feed the join
Edges_news_not_joined ==
    { <<START, "download_node">>, <<START, "fetch_news_node">>,
      <<"download_node", "process_data_node">>,
      <<"process_data_node", "join_node">>,
      <<"report_node", END>> }

\* workflow.add_edge calls of _build_workflow
Edges ==
    { <<START, "download_node">>, <<START, "fetch_news_node">>,
      <<"download_node", "process_data_node">>,
      <<"process_data_node", "join_node">>,
      <<"fetch_news_node", "join_node">>,
      <<"report_node", END>> }

\* the node carrying the conditional edge
ConditionalSource == "join_node"

\* the keys of WorkflowState: the channels of the graph
SchemaKeys ==
    {"raw_dataset_path", "refined_dataset_path", "refined_dataset", "metadata_valid",
     "metrics", "news_articles", "topic", "final_report_path", "errors"}

\* the one channel with a reducer (operator.add)
ReducerKeys == {"errors"}

\* a merge that treats errors like every other channel: last value wins
MergeChannel_overwrite(st, d, k) == d[k]

\* value of channel k after delta d (which writes k) is merged into st
MergeChannel(st, d, k) ==
    IF k \in ReducerKeys THEN Get(st, k, <<>>) \o d[k] ELSE d[k]

\* merge of one delta: keys outside the schema are not channels and are dropped
ApplyDelta(st, d) ==
    LET ks == DOMAIN d \cap SchemaKeys IN
    [k \in DOMAIN st \cup ks |-> IF k \in ks THEN MergeChannel(st, d, k) ELSE st[k]]

\* merge of the deltas of a superstep, in the order the nodes returned
RECURSIVE ApplyWrites(_, _, _)
ApplyWrites(st, order, ws) ==
    IF order = <<>> THEN st
    ELSE ApplyWrites(ApplyDelta(st, ws[Head(order)]), Tail(order), ws)

\* two nodes of one superstep wrote the same channel that has no reducer
Conflict(order, ws) ==
    \E i, j \in DOMAIN order :
        /\ i < j
        /\ (DOMAIN ws[order[i]] \cap DOMAIN ws[order[j]] \cap SchemaKeys) \ ReducerKeys # {}

\* nodes triggered for the next superstep
Successors(ran, chosen) ==
    ({e[2] : e \in {x \in Edges : x[1] \in ran}} \cup chosen) \ {END}

Event(node, delta, info) ==
    [node |-> node, step |-> stepNo, seen |-> state, delta |-> delta, info |-> info]

\* a node that writes its delta into the state it was given
Finish_in_place(node, d, info) ==
    /\ tasks' = tasks \ {node}
    /\ finished' = Append(finished, node)
    /\ writes' = Update(writes, [n \in {node} |-> d])
    /\ log' = Update(log, [k \in {<<node, stepNo>>} |-> Event(node, d, info)])
    /\ state' = ApplyDelta(state, d)
    /\ UNCHANGED <<initial, phase, stepNo>>
    /\ UNCHANGED toolVars

\* a node returned delta d
Finish(node, d, info) ==
    /\ tasks' = tasks \ {node}
    /\ finished' = Append(finished, node)
    /\ writes' = Update(writes, [n \in {node} |-> d])
    /\ log' = Update(log, [k \in {<<node, stepNo>>} |-> Event(node, d, info)])
    /\ UNCHANGED <<state, initial, phase, stepNo>>
    /\ UNCHANGED toolVars

-----------------------------------------------------------------------------
(* What the collaborators can do *)

\* runs of a retried call: every execution but the last raised an exception
\* the decorator retries on
Runs(all, retried, stop) ==
    UNION { { p \o <<f>> : p \in [1..k -> retried], f \in all \ retried } : k \in 0..(stop - 1) }
        \cup [1..stop -> retried]

DownloadRuns ==
    Runs(AttemptOutcomes,
         {o \in AttemptOutcomes :
            download_dataset_body(o).kind = "raise"
            /\ download_dataset_body(o).value \in RetryOnDownload},
         StopAfterAttempt)

ToolResults(value) == {Return(value), Return(""), Raise("Exception")}

Links == {"", "http://a"}

SearchResults ==
    UNION { [1..n -> {[link |-> l] : l \in Links}] : n \in 0..MaxSearchResults }

SearchCalls ==
    {Return(r) : r \in SearchResults} \cup {Raise("ConnectionError")}

CurateOutcomes == {"article", "none", "raise"}

-----------------------------------------------------------------------------
(* Initial states: run_workflow(initial_state) *)

InitialStates ==
    { [errors |-> <<>>],
      [errors |-> <<"initial error">>, topic |-> "Dengue"],
      [errors |-> <<>>, raw_dataset_path |-> "data/given-raw.csv"],
      [errors |-> <<>>, refined_dataset_path |-> ""],
      [errors |-> <<>>, news_articles |-> <<NewsArticle("http://given")>>],
      [errors |-> <<>>, refined_dataset_path |-> "data/given-refined.csv",
       news_articles |-> <<NewsArticle("http://given")>>] }

\* the Report Task has not yet run on output_dir
NoReport == [made |-> FALSE]

\* nothing outside the workflow is under way
ToolsIdle ==
    /\ clock = 0
    /\ _last_api_call = 0
    /\ calls = <<>>
    /\ pc = "idle"
    /\ output_dir = {}
    /\ reported = NoReport
    /\ data_dir = {}
    /\ stubs = EmptyDict
    /\ runs = <<>>

\* the engine at the start of a run
WorkflowStart ==
    /\ state = ApplyDelta([errors |-> <<>>], initial)
    /\ tasks = Successors({START}, {})
    /\ finished = <<>>
    /\ writes = EmptyDict
    /\ routing = "none"
    /\ branch = {}
    /\ phase = "running"
    /\ stepNo = 1
    /\ log = EmptyDict

Init ==
    /\ ToolsIdle
    /\ initial \in InitialStates
    /\ state = ApplyDelta([errors |-> <<>>], initial)
    /\ tasks = Successors({START}, {})
    /\ finished = <<>>
    /\ writes = EmptyDict
    /\ routing = "none"
    /\ branch = {}
    /\ phase = "running"
    /\ stepNo = 1
    /\ log = EmptyDict

-----------------------------------------------------------------------------
(* Node executions *)

RunDownload ==
    /\ phase = "running"
    /\ "download_node" \in tasks
    /\ \E existing_file \in {None, LocalDatasetPath} :
       \E run \in (IF download_step_invokes(existing_file) THEN DownloadRuns ELSE {<<>>}) :
          LET called == IF run = <<>> THEN [result |-> Return(""), attempts |-> 0]
                        ELSE download_dataset(run)
          IN Finish("download_node",
                    download_step(state, existing_file, called.result),
                    [existing_file |-> existing_file, run |-> run,
                     attempts |-> called.attempts, result |-> called.result])
    /\ UNCHANGED <<routing, branch>>

RunProcess ==
    /\ phase = "running"
    /\ "process_data_node" \in tasks
    /\ \E exists \in BOOLEAN :
          IF processing_reaches_tools(state, exists)
          THEN \E validated \in {Return(<<"NU_NOTIFIC", "DT_NOTIFIC">>), Return(<<>>), Raise("Exception")},
                  cleaned \in ToolResults(RefinedPath) :
                  Finish("process_data_node",
                         processing_step(state, exists, validated, cleaned),
                         [exists |-> exists, tools |-> TRUE, validated |-> validated,
                          selected_columns |-> selected_columns(validated),
                          cleaned |-> cleaned])
          ELSE Finish("process_data_node",
                      processing_step(state, exists, Return(<<>>), Return("")),
                      [exists |-> exists, tools |-> FALSE])
    /\ UNCHANGED <<routing, branch>>

RunCuration ==
    /\ phase = "running"
    /\ "fetch_news_node" \in tasks
    /\ \E run \in Runs(SearchCalls,
                       {c \in SearchCalls : search_news_body(c).kind = "raise"},
                       StopAfterAttempt) :
          LET called == search_news(run)
              n == IF called.result.kind = "return" THEN Len(called.result.value) ELSE 0
          IN \E curated \in [1..n -> CurateOutcomes] :
                /\ \A i \in 1..n : ~Truthy(called.result.value[i].link) => curated[i] = "none"
                /\ Finish("fetch_news_node",
                          curation_step(state, called.result, curated),
                          [run |-> run, attempts |-> called.attempts,
                           result |-> called.result, curated |-> curated])
    /\ UNCHANGED <<routing, branch>>

RunJoin ==
    /\ phase = "running"
    /\ "join_node" \in tasks
    /\ Finish("join_node", _join_step(state), EmptyDict)
    /\ routing' = "pending"
    /\ UNCHANGED branch

\* the conditional edge of join_node: the router reads the state with the
\* join's own delta applied
Route ==
    /\ phase = "running"
    /\ routing = "pending"
    /\ LET fresh == ApplyDelta(state, writes["join_node"])
           dest  == should_generate_report(fresh)
       IN /\ branch' = {dest}
          /\ log' = Update(log, [k \in {<<"router", stepNo>>} |->
                                    [node |-> "router", step |-> stepNo, seen |-> fresh,
                                     delta |-> EmptyDict, info |-> [result |-> dest]]])
    /\ routing' = "routed"
    /\ UNCHANGED <<state, initial, tasks, finished, writes, phase, stepNo>>
    /\ UNCHANGED toolVars

RunReport ==
    /\ phase = "running"
    /\ "report_node" \in tasks
    /\ \E rendered \in ToolResults(ReportPath) :
       \E cleanup \in (IF rendered.kind = "return" /\ Truthy(rendered.value)
                       THEN {"ok", "raise"} ELSE {"not called"}) :
          Finish("report_node", creation_step(state, rendered, cleanup),
                 [rendered |-> rendered, cleanup |-> cleanup,
                  metrics |-> report_metrics(state)])
    /\ UNCHANGED <<routing, branch>>

\* end of a superstep: merge the deltas, schedule the successors
EndSuperstep ==
    /\ phase = "running"
    /\ tasks = {}
    /\ routing # "pending"
    /\ IF Conflict(finished, writes)
       THEN /\ phase' = "raised"
            /\ UNCHANGED <<state, tasks>>
       ELSE /\ state' = ApplyWrites(state, finished, writes)
            /\ tasks' = Successors({finished[i] : i \in DOMAIN finished}, branch)
            /\ phase' = IF tasks' = {} THEN "END" ELSE "running"
    /\ finished' = <<>>
    /\ writes' = EmptyDict
    /\ routing' = "none"
    /\ branch' = {}
    /\ stepNo' = stepNo + 1
    /\ UNCHANGED <<initial, log>>
    /\ UNCHANGED toolVars

Next ==
    \/ RunDownload
    \/ RunProcess
    \/ RunCuration
    \/ RunJoin
    \/ Route
    \/ RunReport
    \/ EndSuperstep

Spec == Init /\ [][Next]_vars

\* the engine runs every scheduled node and ends every superstep
FairSpec == Spec /\ WF_vars(Next)

-----------------------------------------------------------------------------
(* main(): the outermost boundary around run_workflow *)

\* a main that judges success by the absence of errors
main_by_errors(ran) ==
    IF ran.kind = "return"
    THEN [kind |-> "return",
          value |-> IF Get(ran.value, "errors", <<>>) = <<>> THEN 0 ELSE 1,
          report |-> Get(ran.value, "final_report_path", None)]
    ELSE IF ran.value = "KeyboardInterrupt"
    THEN [kind |-> "return", value |-> 130, report |-> None]
    ELSE [kind |-> "return", value |-> 1, report |-> None]

\* a main without the handler for KeyboardInterrupt, which is not an Exception
main_no_interrupt_handler(ran) ==
    IF ran.kind = "return"
    THEN [kind |-> "return",
          value |-> IF Truthy(Get(ran.value, "final_report_path", None)) THEN 0 ELSE 1,
          report |-> Get(ran.value, "final_report_path", None)]
    ELSE IF ran.value = "KeyboardInterrupt"
    THEN [kind |-> "raise", value |-> "KeyboardInterrupt", report |-> None]
    ELSE [kind |-> "return", value |-> 1, report |-> None]

\* ran: what run_workflow({"errors": []}) did, Return(final_state) or Raise(e);
\* value is the exit status, report the report path main announces
main(ran) ==
    IF ran.kind = "return"
    THEN [kind |-> "return",
          value |-> IF Truthy(Get(ran.value, "final_report_path", None)) THEN 0 ELSE 1,
          report |-> IF Truthy(Get(ran.value, "final_report_path", None))
                     THEN ran.value["final_report_path"] ELSE None]
    ELSE IF ran.value = "KeyboardInterrupt"
    THEN [kind |-> "return", value |-> 130, report |-> None]
    ELSE [kind |-> "return", value |-> 1, report |-> None]

\* what can end run_workflow before it returns
RunFatal == {"KeyboardInterrupt", "Exception"}

MainEvent(ran) ==
    [node |-> "main", step |-> stepNo, seen |-> state, delta |-> EmptyDict,
     info |-> [ran |-> ran, result |-> main(ran)]]

\* run_workflow returned the final state to main
MainReturns ==
    /\ phase = "END"
    /\ phase' = "exited"
    /\ log' = Update(log, [k \in {<<"main", stepNo>>} |-> MainEvent(Return(state))])
    /\ UNCHANGED <<state, initial, tasks, finished, writes, routing, branch, stepNo>>
    /\ UNCHANGED toolVars

\* an exception or an interrupt left run_workflow while the run was under way
MainCatches ==
    /\ phase = "running"
    /\ \E e \in RunFatal :
          log' = Update(log, [k \in {<<"main", stepNo>>} |-> MainEvent(Raise(e))])
    /\ phase' = "exited"
    /\ UNCHANGED <<state, initial, tasks, finished, writes, routing, branch, stepNo>>
    /\ UNCHANGED toolVars

\* main calls run_workflow({"errors": []})
MainInit == Init /\ initial = [errors |-> <<>>]

MainNext ==
    \/ RunDownload
    \/ RunProcess
    \/ RunCuration
    \/ RunJoin
    \/ Route
    \/ RunReport
    \/ EndSuperstep
    \/ MainReturns
    \/ MainCatches

MainSpec == MainInit /\ [][MainNext]_vars

-----------------------------------------------------------------------------
(* process_news_article and the throttle of news_tools *)

MaxArticles == 2

MaxWork == 2

api_calls_per_minute == 30

_min_delay_seconds == 60 \div api_calls_per_minute

ScrapeAttempts == 2

\* the workflow is not running
WorkflowIdle ==
    /\ initial = [errors |-> <<>>]
    /\ state = [errors |-> <<>>]
    /\ tasks = {}
    /\ finished = <<>>
    /\ writes = EmptyDict
    /\ routing = "none"
    /\ branch = {}
    /\ phase = "idle"
    /\ stepNo = 0
    /\ log = EmptyDict

\* a throttle that records the call but never waits
_rate_limit_no_sleep(now, last, overslept) ==
    [returned |-> now, _last_api_call |-> now]

\* now: time.time() on entry; last: _last_api_call; overslept: by how much
\* time.sleep exceeded the time asked for
_rate_limit(now, last, overslept) ==
    LET elapsed == now - last
        woke    == IF elapsed < _min_delay_seconds
                   THEN now + (_min_delay_seconds - elapsed) + overslept
                   ELSE now
    IN [returned |-> woke, _last_api_call |-> woke]

\* one execution of _scrape_article: enough content, too little, or an exception
ScrapeOutcomes ==
    {Return("content"), Return("short"), Raise("ConnectionError"), Raise("Exception")}

\* _scrape_article under its retry decorator
_scrape_article_with_retry(os) == Retry(os, RetryOnSearch, ScrapeAttempts, 1)

ScrapeRuns ==
    Runs(ScrapeOutcomes, {o \in ScrapeOutcomes : o.kind = "raise" /\ o.value \in RetryOnSearch},
         ScrapeAttempts)

\* what process_news_article leaves alone
throttleFrame == <<workflowVars, output_dir, reported, data_dir, stubs, runs>>

Called(op, at, info) == [op |-> op, at |-> at, info |-> info]

\* curation_step invokes process_news_article for the next URL
StartArticle ==
    /\ pc = "idle"
    /\ Cardinality({k \in DOMAIN calls : calls[k].op = "process_news_article"}) < MaxArticles
    /\ calls' = Append(calls, Called("process_news_article", clock, None))
    /\ pc' = "limit_scrape"
    /\ UNCHANGED <<clock, _last_api_call>>
    /\ UNCHANGED throttleFrame

\* a call of _rate_limit, from entry to return
RateLimit ==
    /\ pc \in {"limit_scrape", "limit_llm"}
    /\ \E overslept \in 0..1 :
          LET r == _rate_limit(clock, _last_api_call, overslept) IN
          /\ clock' = r.returned
          /\ _last_api_call' = r._last_api_call
          /\ calls' = Append(calls, Called("_rate_limit", r.returned, clock))
    /\ pc' = IF pc = "limit_scrape" THEN "scrape" ELSE "llm"
    /\ UNCHANGED throttleFrame

\* the scrape: too little content or an exception ends the article
Scrape ==
    /\ pc = "scrape"
    /\ \E run \in ScrapeRuns, took \in {0, MaxWork} :
          LET scraped == _scrape_article_with_retry(run) IN
          /\ clock' = clock + took
          /\ calls' = Append(calls, Called("scrape", clock, scraped))
          /\ pc' = IF scraped.result = Return("content") THEN "limit_llm" ELSE "idle"
    /\ UNCHANGED _last_api_call
    /\ UNCHANGED throttleFrame

\* the LLM call that curates and summarises; the article ends with it
Curate ==
    /\ pc = "llm"
    /\ \E took \in {0, MaxWork} :
          /\ clock' = clock + took
          /\ calls' = Append(calls, Called("llm", clock, None))
    /\ pc' = "idle"
    /\ UNCHANGED _last_api_call
    /\ UNCHANGED throttleFrame

ThrottleInit ==
    /\ WorkflowIdle
    /\ clock \in _min_delay_seconds..(_min_delay_seconds + 1)
    /\ _last_api_call = 0
    /\ calls = <<>>
    /\ pc = "idle"
    /\ output_dir = {}
    /\ reported = NoReport
    /\ data_dir = {}
    /\ stubs = EmptyDict
    /\ runs = <<>>

ThrottleNext ==
    \/ StartArticle
    \/ RateLimit
    \/ Scrape
    \/ Curate

ThrottleSpec == ThrottleInit /\ [][ThrottleNext]_vars

-----------------------------------------------------------------------------
(* The report files: render_report and cleanup_old_reports *)

MaxOldReports == 4

MaxNewReports == 2

max_reports == 3

\* report_<stamp>.html, last modified at mtime
ReportFile(stamp, mtime) ==
    [prefix |-> "report_", stamp |-> stamp, suffix |-> ".html", mtime |-> mtime]

\* files the filter of cleanup_old_reports must pass over
OtherFiles ==
    { [prefix |-> "report_", stamp |-> 1, suffix |-> ".txt", mtime |-> 1],
      [prefix |-> "index_", stamp |-> 1, suffix |-> ".html", mtime |-> 1] }

FileName(f) == <<f.prefix, f.stamp, f.suffix>>

\* f.startswith('report_') and f.endswith('.html')
IsReport(f) == f.prefix = "report_" /\ f.suffix = ".html"

ReportFiles(dir) == {f \in dir : IsReport(f)}

\* a cleanup that takes the order of the file names for the age of the files
cleanup_old_reports_by_name(dir, keep, failing) ==
    LET report_files    == ReportFiles(dir)
        files_to_delete == {f \in report_files :
                               Cardinality({g \in report_files : g.stamp > f.stamp}) >= keep}
        removed         == files_to_delete \ failing
    IN IF Cardinality(report_files) <= keep
       THEN [dir |-> dir, returned |-> 0]
       ELSE [dir |-> dir \ removed, returned |-> Cardinality(removed)]

\* dir: the output directory; keep: max_reports; failing: the files whose
\* os.remove raises.  The files are sorted by modification time and all
\* but the last keep of them are deleted.
cleanup_old_reports(dir, keep, failing) ==
    LET report_files    == ReportFiles(dir)
        files_to_delete == {f \in report_files :
                               Cardinality({g \in report_files : g.mtime > f.mtime}) >= keep}
        removed         == files_to_delete \ failing
    IN IF Cardinality(report_files) <= keep
       THEN [dir |-> dir, returned |-> 0]
       ELSE [dir |-> dir \ removed, returned |-> Cardinality(removed)]

\* render_report writes report_<now>.html, replacing a file of that name
render_report(dir, now) ==
    {f \in dir : FileName(f) # FileName(ReportFile(now, now))} \cup {ReportFile(now, now)}

\* directories earlier runs and the user can have left: reports with
\* distinct names and distinct modification times, all in the past
OldDirectories ==
    UNION { { {ReportFile(t, m[t]) : t \in stamps} :
                m \in {f \in [stamps -> 1..MaxOldReports] :
                          \A a, b \in stamps : a # b => f[a] # f[b]} } :
            stamps \in SUBSET (1..MaxOldReports) }

\* what the Report Task leaves alone
reportFrame == <<workflowVars, _last_api_call, calls, pc, data_dir, stubs, runs>>

\* the part of creation_step that follows a successful rendering: the
\* report is written and cleanup_old_reports(max_reports=3) is called
CreateReport ==
    /\ clock < MaxOldReports + MaxNewReports
    /\ \E now \in (clock + 1)..(clock + 2) :
          LET written == render_report(output_dir, now)
              doomed  == written \ cleanup_old_reports(written, max_reports, {}).dir
          IN \E failing \in {{}} \cup {{f} : f \in doomed} :
                LET cleaned == cleanup_old_reports(written, max_reports, failing) IN
                /\ clock' = now
                /\ output_dir' = cleaned.dir
                /\ reported' = [made |-> TRUE,
                                 report |-> ReportFile(now, now), before |-> output_dir,
                                 failing |-> failing, returned |-> cleaned.returned]
    /\ UNCHANGED reportFrame

ReportsInit ==
    /\ WorkflowIdle
    /\ clock = MaxOldReports
    /\ _last_api_call = 0
    /\ calls = <<>>
    /\ pc = "idle"
    /\ \E old \in OldDirectories, others \in {{}, OtherFiles} : output_dir = old \cup others
    /\ reported = NoReport
    /\ data_dir = {}
    /\ stubs = EmptyDict
    /\ runs = <<>>

ReportsNext == CreateReport

ReportsSpec == ReportsInit /\ [][ReportsNext]_vars

-----------------------------------------------------------------------------
(* Runs of the workflow one after the other on the same data directory *)

MaxRuns == 2

\* the most recent INFLUD*.csv of the data directory, None when there is none
find_latest_dataset(dir) ==
    IF LocalDatasetPath \in dir THEN LocalDatasetPath
    ELSE IF DownloadedPath \in dir THEN DownloadedPath
    ELSE None

\* env.download: the attempts of download_dataset; env.partial: an attempt
\* that failed had already opened the target file for writing
DownloadLeavesFile(env) ==
    \/ download_dataset(env.download).result = Return(DownloadedPath)
    \/ /\ env.partial
       /\ \E n \in DOMAIN env.download : env.download[n] \in {"request_exception", "other_exception"}

\* the data directory after download_step has run
DataDirAfter(dir, env) ==
    IF download_step_invokes(find_latest_dataset(dir)) /\ DownloadLeavesFile(env)
    THEN dir \cup {DownloadedPath}
    ELSE dir

\* the delta node n returns on the state st when the collaborators behave
\* as env says and the data directory is dir at the start of the run
NodeDelta(n, st, env, dir) ==
    CASE n = "download_node" ->
            download_step(st, find_latest_dataset(dir),
                          IF download_step_invokes(find_latest_dataset(dir))
                          THEN download_dataset(env.download).result ELSE Return(""))
      [] n = "process_data_node" ->
            processing_step(st, Get(st, "raw_dataset_path", None) \in DataDirAfter(dir, env),
                            env.validated, env.cleaned)
      [] n = "fetch_news_node" ->
            curation_step(st, search_news(<<env.searched>>).result, env.curated)
      [] n = "join_node" -> _join_step(st)
      [] n = "report_node" -> creation_step(st, env.rendered, env.cleanup)

\* the order in which the deltas of a superstep are merged here
NodeOrder ==
    <<"download_node", "fetch_news_node", "process_data_node", "join_node", "report_node">>

InOrder(ts) == SelectSeq(NodeOrder, LAMBDA n : n \in ts)

\* the supersteps of app.invoke from the state st with the nodes ts scheduled
RECURSIVE Supersteps(_, _, _, _, _)
Supersteps(st, ts, env, dir, routed) ==
    IF ts = {} THEN [final |-> st, routed |-> routed]
    ELSE LET ws     == [n \in ts |-> NodeDelta(n, st, env, dir)]
             chosen == IF ConditionalSource \in ts
                       THEN {should_generate_report(ApplyDelta(st, ws[ConditionalSource]))}
                       ELSE {}
         IN Supersteps(ApplyWrites(st, InOrder(ts), ws), Successors(ts, chosen), env, dir,
                       IF chosen = {} THEN routed
                       ELSE Append(routed, should_generate_report(ApplyDelta(st, ws[ConditionalSource]))))

run_workflow(initial_state, env, dir) ==
    Supersteps(ApplyDelta([errors |-> <<>>], initial_state), Successors({START}, {}),
               env, dir, <<>>)

\* deterministic collaborators: one outcome each, the same in every run
RerunStubs ==
    { [download |-> d, partial |-> p, validated |-> v, cleaned |-> c,
       searched |-> s, curated |-> k, rendered |-> r, cleanup |-> u] :
        d \in DownloadRuns, p \in BOOLEAN,
        v \in {Return(<<"NU_NOTIFIC", "DT_NOTIFIC">>), Raise("Exception")},
        c \in ToolResults(RefinedPath),
        s \in {Return(<<>>), Return(<<[link |-> "http://a"]>>)},
        k \in {<<"article">>, <<"none">>},
        r \in ToolResults(ReportPath),
        u \in {"ok", "raise"} }

\* what a run leaves alone
rerunFrame == <<workflowVars, clock, _last_api_call, calls, pc, output_dir, reported, stubs>>

\* one call of run_workflow with a fresh copy of the initial state
Invoke ==
    /\ Len(runs) < MaxRuns
    /\ LET r == run_workflow(initial, stubs, data_dir) IN
          runs' = Append(runs, [final |-> r.final, routed |-> r.routed,
                                found |-> find_latest_dataset(data_dir)])
    /\ data_dir' = DataDirAfter(data_dir, stubs)
    /\ UNCHANGED rerunFrame

RerunInit ==
    /\ WorkflowIdle
    /\ clock = 0
    /\ _last_api_call = 0
    /\ calls = <<>>
    /\ pc = "idle"
    /\ output_dir = {}
    /\ reported = NoReport
    /\ data_dir \in {{}, {LocalDatasetPath}}
    /\ stubs \in RerunStubs
    /\ runs = <<>>

RerunNext == Invoke

RerunSpec == RerunInit /\ [][RerunNext]_vars

-----------------------------------------------------------------------------
(* curation_step on its own, over search results with several URLs *)

WideLinks == {"", "http://a", "http://b"}

WideSearchResults ==
    UNION { [1..n -> {[link |-> l] : l \in WideLinks}] : n \in 0..MaxSearchResults }

CurationOnly ==
    /\ phase = "running"
    /\ "fetch_news_node" \in tasks
    /\ \E results \in WideSearchResults :
       \E curated \in [1..Len(results) -> CurateOutcomes] :
          /\ \A i \in 1..Len(results) : ~Truthy(results[i].link) => curated[i] = "none"
          /\ Finish("fetch_news_node",
                    curation_step(state, Return(results), curated),
                    [run |-> <<Return(results)>>, attempts |-> 1,
                     result |-> Return(results), curated |-> curated,
                     invoked |-> curate_calls(results, 1)])
    /\ UNCHANGED <<routing, branch>>

CurationSpec == Init /\ [][CurationOnly]_vars

-----------------------------------------------------------------------------
(* Reading the history *)

Events(node) == {i \in DOMAIN log : log[i].node = node}

TaskNodes == {"download_node", "process_data_node", "fetch_news_node", "report_node"}

ErrorsOf(d) == Get(d, "errors", <<>>)

\* the executions whose deltas have been merged into the state
Merged == {i \in DOMAIN log : log[i].step < stepNo /\ log[i].node # "router"}

-----------------------------------------------------------------------------
(* C1 *)

\* C1: every execution of the Report Task starts from a state in which
\* refined_dataset_path is truthy and news_articles is non-empty.
C1_ReportOnlyWhenBothReady ==
    \A i \in Events("report_node") :
        /\ "refined_dataset_path" \in DOMAIN log[i].seen
        /\ log[i].seen["refined_dataset_path"] \notin {None, ""}
        /\ "news_articles" \in DOMAIN log[i].seen
        /\ Len(log[i].seen["news_articles"]) >= 1

C1_Witness ==
    /\ phase = "END"
    /\ initial = [errors |-> <<>>]
    /\ Events("report_node") # {}

-----------------------------------------------------------------------------
(* C2 *)

RouterDecisionsRight ==
    \A i \in Events("router") :
        LET st    == log[i].seen
            data  == "refined_dataset_path" \in DOMAIN st
                     /\ st["refined_dataset_path"] \notin {None, ""}
            news  == "news_articles" \in DOMAIN st /\ Len(st["news_articles"]) >= 1
        IN /\ log[i].info.result \in {"report_node", END}
           /\ log[i].info.result = "report_node" <=> (data /\ news)

RouterDecisionsAgree ==
    \A i, j \in Events("router") :
        ( /\ Get(log[i].seen, "refined_dataset_path", None)
               = Get(log[j].seen, "refined_dataset_path", None)
          /\ Get(log[i].seen, "news_articles", <<>>)
               = Get(log[j].seen, "news_articles", <<>>) )
        => log[i].info.result = log[j].info.result

RouterStep == routing = "pending" /\ routing' = "routed"

\* C2: the router answers report_node exactly when refined_dataset_path is
\* truthy and news_articles is non-empty, and END otherwise; evaluations on
\* states that agree on the two fields give the same answer; evaluating
\* the router changes neither the state nor any pending delta.
C2_RouterContract ==
    /\ [](RouterDecisionsRight /\ RouterDecisionsAgree)
    /\ [][RouterStep => (state' = state /\ writes' = writes /\ tasks' = tasks)]_vars

C2_Witness ==
    \E i, j \in Events("router") :
        log[i].info.result = END /\ log[j].info.result = "report_node"

-----------------------------------------------------------------------------
(* C3 *)

ErrorStrings ==
    {state["errors"][i] : i \in DOMAIN state["errors"]}
        \cup {initial["errors"][i] : i \in DOMAIN initial["errors"]}
        \cup UNION {{ErrorsOf(log[i].delta)[j] : j \in DOMAIN ErrorsOf(log[i].delta)}
                        : i \in DOMAIN log}

\* how many times the merged deltas carry the error x
Emitted(x) ==
    Cardinality({p \in UNION {{<<i, j>> : j \in DOMAIN ErrorsOf(log[i].delta)} : i \in Merged} :
                    ErrorsOf(log[p[1]].delta)[p[2]] = x})

ErrorsAccounted ==
    \A x \in ErrorStrings :
        Count(state["errors"], x) = Count(initial["errors"], x) + Emitted(x)

ErrorsOnlyGrow ==
    /\ Len(state["errors"]') >= Len(state["errors"])
    /\ SubSeq(state["errors"]', 1, Len(state["errors"])) = state["errors"]

\* C3: whatever the order in which the nodes return, errors holds the initial
\* errors and every error of every merged delta, each as often as it was
\* emitted, and a merge only appends to errors.
C3_ErrorsAccumulate ==
    /\ []ErrorsAccounted
    /\ [][ErrorsOnlyGrow]_vars

C3_Witness ==
    /\ phase = "END"
    /\ Len(initial["errors"]) = 1
    /\ Len(state["errors"]) = 3
    /\ state["errors"][1] = "initial error"

-----------------------------------------------------------------------------
(* C4 *)

RanToCompletion ==
    /\ \A n \in {"download_node", "process_data_node", "fetch_news_node"} :
          Cardinality(Events(n)) = 1
    /\ Cardinality(Events("join_node")) = 2
    /\ Cardinality(Events("router")) = 2

\* C4: whatever the Tasks return, the run reaches END, and when it has,
\* each Task of both branches has run once and the join has been evaluated
\* (and routed) once for each branch.
C4_SoftFailForward ==
    /\ <>(phase = "END")
    /\ [](phase = "END" => RanToCompletion)
    /\ [](phase # "raised")

\* the data branch failed at download and at processing, the news branch
\* produced an article, and the run is over
C4_Witness ==
    /\ phase = "END"
    /\ RanToCompletion
    /\ \E i \in Events("download_node") : ErrorsOf(log[i].delta) # <<>>
    /\ \E i \in Events("process_data_node") : ErrorsOf(log[i].delta) # <<>>
    /\ Len(Get(state, "news_articles", <<>>)) = 1

-----------------------------------------------------------------------------
(* C5 *)

\* the initial state carries no dataset path of its own
NoGivenDataset ==
    /\ "raw_dataset_path" \notin DOMAIN initial
    /\ "refined_dataset_path" \notin DOMAIN initial

\* no local dataset, and the download collaborator returned ""
DownloadReturnedEmpty(i) ==
    /\ log[i].node = "download_node"
    /\ log[i].info.existing_file = None
    /\ log[i].info.result = Return("")

\* C5: with no local dataset and a download that returns "", download_step
\* records an error and no raw_dataset_path, processing_step short-circuits
\* with its own error and no refined_dataset_path, and when the news branch
\* delivers articles every evaluation of the join marks news complete and
\* data not complete, the router answers END, and the Report Task never runs.
C5_PartialFailure ==
    \A d \in DOMAIN log :
        (NoGivenDataset /\ DownloadReturnedEmpty(d)) =>
            /\ log[d].delta = [errors |-> <<"Dataset download failed - no path returned">>]
            /\ \A p \in Events("process_data_node") :
                  log[p].delta = [errors |-> <<"No raw dataset path available for processing">>]
            /\ Events("report_node") = {}
            /\ \A r \in Events("router") : log[r].info.result = END
            /\ \A j \in Events("join_node") :
                  Len(Get(log[j].seen, "news_articles", <<>>)) >= 1 =>
                      /\ Get(log[j].delta, "news_complete", FALSE) = TRUE
                      /\ Get(log[j].delta, "data_complete", FALSE) = FALSE
                      /\ "ready_for_report" \notin DOMAIN log[j].delta
            /\ phase = "END" =>
                  /\ "raw_dataset_path" \notin DOMAIN state
                  /\ "refined_dataset_path" \notin DOMAIN state
                  /\ "final_report_path" \notin DOMAIN state

C5_Witness ==
    /\ phase = "END"
    /\ NoGivenDataset
    /\ \E d \in DOMAIN log : DownloadReturnedEmpty(d)
    /\ Len(Get(state, "news_articles", <<>>)) >= 1
    /\ state["errors"] = <<"Dataset download failed - no path returned",
                           "No raw dataset path available for processing">>
    /\ \E j \in Events("join_node") :
          log[j].step = 3 /\ log[j].delta = [news_complete |-> TRUE]

-----------------------------------------------------------------------------
(* C6 *)

BranchSinks == {"process_data_node", "fetch_news_node"}

\* C6: processing_step starts only in a superstep after the one in which
\* download_step returned (so after its delta was merged), whether or not
\* the download failed; the join is evaluated only in the superstep after a
\* branch's last Task returned, and an evaluation that is not later than
\* processing_step is the one for the news branch.
C6_BranchOrder ==
    /\ \A p \in Events("process_data_node") :
          \E d \in Events("download_node") : log[d].step < log[p].step
    /\ \A j \in Events("join_node") :
          /\ \E b \in DOMAIN log :
                log[b].node \in BranchSinks /\ log[b].step = log[j].step - 1
          /\ \A p \in Events("process_data_node") :
                (log[j].step <= log[p].step) =>
                    \E c \in Events("fetch_news_node") : log[c].step = log[j].step - 1
    /\ phase = "END" =>
          \E p \in Events("process_data_node"), j \in Events("join_node") :
              log[j].step = log[p].step + 1

\* the download failed, processing ran in the next superstep, after the
\* join for the news branch had already returned in that superstep
C6_Witness ==
    /\ finished = <<"join_node", "process_data_node">>
    /\ \E d \in Events("download_node"), p \in Events("process_data_node") :
          /\ ErrorsOf(log[d].delta) # <<>>
          /\ log[p].step = log[d].step + 1

-----------------------------------------------------------------------------
(* C7 *)

\* C7 (as claimed): a completion flag that one evaluation of the join put in
\* its delta is true in the state every later evaluation reads.
C7_FlagsRetained ==
    \A i, j \in Events("join_node") :
        log[i].step < log[j].step =>
            \A flag \in {"data_complete", "news_complete"} :
                Get(log[i].delta, flag, FALSE) => Get(log[j].seen, flag, FALSE)

-----------------------------------------------------------------------------
(* C8 *)

BothCompleteAt(st) ==
    /\ \/ Get(st, "data_complete", FALSE)
       \/ Get(st, "refined_dataset_path", None) \notin {None, ""}
    /\ \/ Get(st, "news_complete", FALSE)
       \/ Len(Get(st, "news_articles", <<>>)) >= 1

\* C8: the join puts ready_for_report in its delta exactly when both
\* branches are complete at that evaluation, and the router of the same
\* superstep chooses the Report Task exactly when the join did so.
C8_JoinAndRouterAgree ==
    /\ \A j \in Events("join_node") :
          /\ ("ready_for_report" \in DOMAIN log[j].delta) <=> BothCompleteAt(log[j].seen)
          /\ "ready_for_report" \in DOMAIN log[j].delta => log[j].delta["ready_for_report"] = TRUE
    /\ \A r \in Events("router") :
          \E j \in Events("join_node") :
              /\ log[j].step = log[r].step
              /\ (log[r].info.result = "report_node")
                    <=> ("ready_for_report" \in DOMAIN log[j].delta)
    /\ \A e \in Events("report_node") :
          \E j \in Events("join_node") :
              /\ log[j].step = log[e].step - 1
              /\ "ready_for_report" \in DOMAIN log[j].delta

C8_Witness ==
    /\ initial = [errors |-> <<>>]
    /\ \E j \in Events("join_node"), r \in Events("router") :
          /\ log[j].step = 3 /\ log[r].step = 3
          /\ "ready_for_report" \in DOMAIN log[j].delta
          /\ log[r].info.result = "report_node"
    /\ \E j \in Events("join_node"), r \in Events("router") :
          /\ log[j].step = 2 /\ log[r].step = 2
          /\ "ready_for_report" \notin DOMAIN log[j].delta
          /\ log[r].info.result = END

-----------------------------------------------------------------------------
(* C9 *)

\* a collaborator raised during the execution log[i]
CollaboratorRaised(i) ==
    CASE log[i].node = "download_node" ->
            log[i].info.attempts > 0 /\ log[i].info.result.kind = "raise"
      [] log[i].node = "process_data_node" ->
            log[i].info.tools
            /\ (log[i].info.validated.kind = "raise" \/ log[i].info.cleaned.kind = "raise")
      [] log[i].node = "fetch_news_node" ->
            \/ log[i].info.result.kind = "raise"
            \/ \E k \in DOMAIN log[i].info.curated : log[i].info.curated[k] = "raise"
      [] log[i].node = "report_node" ->
            log[i].info.rendered.kind = "raise" \/ log[i].info.cleanup = "raise"
      [] OTHER -> FALSE

\* C9 (as claimed): no exception reaches the engine, and an execution in
\* which a collaborator raised returns a delta with an errors entry.
C9_ExceptionsBecomeErrors ==
    /\ phase # "raised"
    /\ \A i \in DOMAIN log :
          (log[i].node \in TaskNodes /\ CollaboratorRaised(i)) =>
              /\ "errors" \in DOMAIN log[i].delta
              /\ Len(log[i].delta["errors"]) >= 1

-----------------------------------------------------------------------------
(* C10 *)

\* C10: with no local dataset, two transient errors followed by a success
\* give raw_dataset_path and no error after 3 attempts; three transient
\* errors give exactly 3 attempts, one error, no raw_dataset_path, and the
\* exception stays inside download_step.
C10_DownloadRetry ==
    /\ phase # "raised"
    /\ \A i \in Events("download_node") :
          /\ log[i].info.attempts <= 3
          /\ (log[i].info.existing_file = None
              /\ log[i].info.run = <<"request_exception", "request_exception", "saved">>) =>
                 /\ log[i].info.attempts = 3
                 /\ log[i].delta = [raw_dataset_path |-> DownloadedPath]
          /\ (log[i].info.existing_file = None
              /\ log[i].info.run
                   = <<"request_exception", "request_exception", "request_exception">>) =>
                 /\ log[i].info.attempts = 3
                 /\ DOMAIN log[i].delta = {"errors"}
                 /\ Len(log[i].delta["errors"]) = 1

C10_Witness ==
    /\ phase = "END"
    /\ \E i \in Events("download_node") :
          /\ log[i].info.run = <<"request_exception", "request_exception", "saved">>
          /\ Get(state, "raw_dataset_path", None) = DownloadedPath
          /\ log[i].info.attempts = 3

-----------------------------------------------------------------------------
(* C11 *)

\* the n-th call of the search client in execution log[i] raised an error
\* the retry decorator of search_news is declared for
TransientSearchFailure(i, n) ==
    /\ n \in DOMAIN log[i].info.run
    /\ log[i].info.run[n].kind = "raise"
    /\ log[i].info.run[n].value \in RetryOnSearch

\* C11 (as claimed): when the search call raises a transient error on an
\* attempt and fewer than 3 attempts have been made, search_news attempts
\* the search again.
C11_SearchRetry ==
    \A i \in Events("fetch_news_node") :
        \A n \in 1..(StopAfterAttempt - 1) :
            TransientSearchFailure(i, n) => log[i].info.attempts > n

-----------------------------------------------------------------------------
(* C12 *)

\* outcomes of the download body that are not a requests.RequestException
NonTransient == {"no_link", "other_exception"}

\* C12: with no local dataset, a download whose body ends in a missing link
\* or in an exception other than requests.RequestException is not retried:
\* it is the only attempt, download_dataset returns "", and the delta of
\* download_step is exactly one error with no raw_dataset_path.
C12_NonTransientNotRetried ==
    \A i \in Events("download_node") :
        ( /\ log[i].info.existing_file = None
          /\ log[i].info.run # <<>>
          /\ log[i].info.run[1] \in NonTransient ) =>
            /\ log[i].info.attempts = 1
            /\ log[i].info.result = Return("")
            /\ DOMAIN log[i].delta = {"errors"}
            /\ Len(log[i].delta["errors"]) = 1
            /\ "raw_dataset_path" \notin DOMAIN log[i].delta

C12_Witness ==
    /\ phase = "END"
    /\ "raw_dataset_path" \notin DOMAIN state
    /\ \E i \in Events("download_node") :
          /\ log[i].info.existing_file = None
          /\ log[i].info.run = <<"other_exception">>
          /\ log[i].info.attempts = 1
          /\ state["errors"][1] = log[i].delta["errors"][1]

-----------------------------------------------------------------------------
(* C13 *)

\* the initial state gives nothing but errors and topic
PlainInitial == DOMAIN initial \subseteq {"errors", "topic"}

\* the search returned no item and the data branch produced a refined dataset
ScenarioB ==
    /\ PlainInitial
    /\ \E c \in Events("fetch_news_node") : log[c].info.result = Return(<<>>)
    /\ \E p \in Events("process_data_node") :
          Truthy(Get(log[p].delta, "refined_dataset_path", None))

\* C13 (as claimed): when the search returns 0 items and the data branch
\* succeeds, the router answers END at every evaluation, the Report Task
\* does not run, and the final errors holds a message about the missing
\* news, which only the news branch, the join or the router could have
\* emitted.
C13_InsufficientNews ==
    (phase = "END" /\ ScenarioB) =>
        /\ \A r \in Events("router") : log[r].info.result = END
        /\ Events("report_node") = {}
        /\ \E i \in Events("fetch_news_node") \cup Events("join_node") \cup Events("router") :
              /\ ErrorsOf(log[i].delta) # <<>>
              /\ \E k \in DOMAIN state["errors"] :
                    state["errors"][k] = ErrorsOf(log[i].delta)[1]

-----------------------------------------------------------------------------
(* C14 *)

\* download_step and processing_step delivered their paths and curation
\* approved at least one article
BranchesSucceeded ==
    /\ \E d \in Events("download_node") :
          Truthy(Get(log[d].delta, "raw_dataset_path", None))
    /\ \E p \in Events("process_data_node") :
          Truthy(Get(log[p].delta, "refined_dataset_path", None))
    /\ \E c \in Events("fetch_news_node") :
          Len(Get(log[c].delta, "news_articles", <<>>)) >= 1

\* C14 (as claimed): from the initial state {"errors": []}, when both
\* branches succeed and rendering returns a path, the router answers
\* report_node once the data branch has been joined, the Report Task runs,
\* and the final state has refined_dataset_path and final_report_path set
\* and errors == [].
C14_ScenarioA ==
    (phase = "END" /\ initial = [errors |-> <<>>] /\ BranchesSucceeded) =>
        /\ \E r \in Events("router") : log[r].info.result = "report_node"
        /\ Events("report_node") # {}
        /\ \A e \in Events("report_node") :
              (log[e].info.rendered.kind = "return" /\ Truthy(log[e].info.rendered.value)) =>
                  /\ Truthy(Get(state, "refined_dataset_path", None))
                  /\ Truthy(Get(state, "final_report_path", None))
                  /\ state["errors"] = <<>>

-----------------------------------------------------------------------------
(* C15 *)

ReportSucceeded(d) ==
    /\ Truthy(Get(d, "final_report_path", None))
    /\ ErrorsOf(d) = <<>>

ReportFailed(d) ==
    /\ Len(ErrorsOf(d)) = 1
    /\ "final_report_path" \notin DOMAIN d

\* C15 (as claimed): the delta of every execution of the Report Task either
\* sets final_report_path to a non-empty path and appends no error, or
\* appends exactly one error and sets no final_report_path, never both and
\* never neither; and, in a run whose initial state gives no data of its
\* own, the Report Task runs at most once.
C15_ReportOneOutcome ==
    /\ \A e \in Events("report_node") :
          /\ ReportSucceeded(log[e].delta) \/ ReportFailed(log[e].delta)
          /\ ~(ReportSucceeded(log[e].delta) /\ ReportFailed(log[e].delta))
    /\ PlainInitial => Cardinality(Events("report_node")) <= 1

-----------------------------------------------------------------------------
(* C16 *)

\* C16 (as claimed): once the delta of an execution of the Report Task has
\* been merged, the metrics of the state is the mapping that execution
\* computed from the refined dataset.
C16_MetricsSetByReport ==
    \A e \in Events("report_node") :
        log[e].step = stepNo - 1 =>
            /\ "metrics" \in DOMAIN state
            /\ state["metrics"] = log[e].info.metrics

-----------------------------------------------------------------------------
(* C17 *)

\* the fields the merge rule protects
KeepFields ==
    {"raw_dataset_path", "refined_dataset_path", "news_articles", "topic",
     "final_report_path"}

\* C17 (as claimed): when a merged delta carries a value for one of
\* raw_dataset_path, refined_dataset_path, news_articles, topic and
\* final_report_path, and the field was non-null in the state the Task read,
\* the merged state still holds the value it had.
C17_OverwriteOnlyIfNull ==
    \A i \in Merged :
        log[i].step = stepNo - 1 =>
            \A k \in DOMAIN log[i].delta \cap KeepFields :
                (k \in DOMAIN log[i].seen /\ log[i].seen[k] # None) =>
                    state[k] = log[i].seen[k]

-----------------------------------------------------------------------------
(* C18 *)

WriteOnceFields == {"raw_dataset_path", "refined_dataset_path", "final_report_path"}

\* a field that holds a value keeps it over the step
ValueKept ==
    \A k \in WriteOnceFields :
        (k \in DOMAIN state /\ state[k] # None) =>
            (k \in DOMAIN state' /\ state'[k] = state[k])

\* no execution that read a value in one of the fields returned a delta
\* for that field
SetFieldsNotRewritten ==
    \A i \in DOMAIN log :
        \A k \in WriteOnceFields :
            (k \in DOMAIN log[i].seen /\ log[i].seen[k] # None) =>
                k \notin DOMAIN log[i].delta

\* C18: in a run whose initial state sets only errors and/or topic, once
\* raw_dataset_path, refined_dataset_path or final_report_path holds a
\* non-null value it holds that value in every later state, and no Task
\* that runs later returns a delta for it.
C18_WriteOnce ==
    /\ [](PlainInitial => SetFieldsNotRewritten)
    /\ [][PlainInitial => ValueKept]_vars

C18_Witness ==
    /\ phase = "END"
    /\ PlainInitial
    /\ Get(state, "raw_dataset_path", None) = DownloadedPath
    /\ Get(state, "refined_dataset_path", None) = RefinedPath
    /\ Get(state, "final_report_path", None) = ReportPath
    /\ Len(state["errors"]) > Len(initial["errors"])

-----------------------------------------------------------------------------
(* C19 *)

\* a node returns in this step
NodeReturns == Len(finished') = Len(finished) + 1

\* the snapshot every execution of the current superstep was given is
\* still the state, field by field
SnapshotsIntact ==
    \A i \in DOMAIN log :
        log[i].step = stepNo /\ log[i].node # "router" => log[i].seen = state

\* every field that changes was written by a delta returned in this superstep
ChangedOnlyByDeltas ==
    \A k \in DOMAIN state' :
        (k \notin DOMAIN state \/ state'[k] # state[k]) =>
            \E j \in DOMAIN finished : k \in DOMAIN writes[finished[j]]

\* C19: the return of a Task or of the join leaves every field of the state
\* it was given as it was, errors and news_articles included, and the state
\* changes only when the returned deltas are merged.
C19_SnapshotNotMutated ==
    /\ []SnapshotsIntact
    /\ [][NodeReturns => state' = state]_vars
    /\ [][ChangedOnlyByDeltas /\ (state' # state => tasks = {})]_vars

\* the Report Task has returned an error and the articles and errors it
\* read are still what the state holds
C19_Witness ==
    /\ "report_node" \in DOMAIN writes
    /\ ErrorsOf(writes["report_node"]) # <<>>
    /\ Len(Get(state, "news_articles", <<>>)) >= 1
    /\ \E e \in Events("report_node") :
          /\ log[e].step = stepNo
          /\ log[e].seen = state
          /\ ErrorsOf(log[e].delta)[1] \notin {state["errors"][k] : k \in DOMAIN state["errors"]}

-----------------------------------------------------------------------------
(* C20 *)

\* the messages processing_step builds for a failed validation
ValidationMessages == {"Column validation returned empty list", "Column validation failed"}

\* C20 (as claimed): when validate_columns returns an empty list or raises,
\* processing_step goes on to cleaning with zero selected columns and its
\* delta carries an error for the validation failure.
C20_ValidationFailureRecorded ==
    \A p \in Events("process_data_node") :
        ( /\ log[p].info.tools
          /\ \/ log[p].info.validated.kind = "raise"
             \/ log[p].info.validated = Return(<<>>) ) =>
            /\ log[p].info.selected_columns = <<>>
            /\ "cleaned" \in DOMAIN log[p].info
            /\ \E k \in DOMAIN ErrorsOf(log[p].delta) :
                  ErrorsOf(log[p].delta)[k] \in ValidationMessages

-----------------------------------------------------------------------------
(* C26 *)

\* C26 (as claimed): in every run the Report Task executes at most once.
C26_ReportAtMostOnce ==
    Cardinality(Events("report_node")) <= 1

-----------------------------------------------------------------------------
(* C27 *)

\* C27: when find_latest_dataset returns a file, download_step puts that
\* file in raw_dataset_path, records no error and does not invoke the
\* download collaborator; the collaborator is invoked only when no local
\* dataset was found.
C27_LocalDatasetFirst ==
    \A d \in Events("download_node") :
        /\ log[d].info.existing_file \notin {None, ""} =>
              /\ log[d].delta = [raw_dataset_path |-> log[d].info.existing_file]
              /\ log[d].info.attempts = 0
        /\ log[d].info.attempts > 0 => log[d].info.existing_file \in {None, ""}

C27_Witness ==
    /\ phase = "END"
    /\ Get(state, "raw_dataset_path", None) = LocalDatasetPath
    /\ \E d \in Events("download_node") :
          /\ log[d].info.existing_file = LocalDatasetPath
          /\ log[d].info.attempts = 0
          /\ "errors" \notin DOMAIN log[d].delta

-----------------------------------------------------------------------------
(* C29 *)

\* the errors the Tasks of the two branches have emitted
BranchErrors ==
    {i \in DOMAIN log :
        /\ log[i].node \in {"download_node", "process_data_node", "fetch_news_node"}
        /\ ErrorsOf(log[i].delta) # <<>>}

\* C29: in a run whose initial state sets only errors and/or topic, the
\* Report Task starts only when no Task of the branches has emitted an
\* error, so the errors it reads (and hands to the renderer) are the
\* initial errors; and a final state reached after a branch emitted an
\* error has no final_report_path.
C29_NoErrorsWhenReportStarts ==
    PlainInitial =>
        /\ \A e \in Events("report_node") :
              /\ BranchErrors = {}
              /\ log[e].seen["errors"] = initial["errors"]
        /\ (phase = "END" /\ BranchErrors # {}) => "final_report_path" \notin DOMAIN state

C29_Witness ==
    /\ phase = "END"
    /\ PlainInitial
    /\ initial["errors"] = <<"initial error">>
    /\ \E e \in Events("report_node") : log[e].seen["errors"] = <<"initial error">>
    /\ Truthy(Get(state, "final_report_path", None))

-----------------------------------------------------------------------------
(* C30 *)

Reverse(s) == [i \in 1..Len(s) |-> s[Len(s) + 1 - i]]

\* C30: the deltas of two nodes that ran in the same superstep share no key
\* but errors, the engine never meets two writes to one overwrite-merged
\* field, and merging the deltas of a superstep in the opposite order
\* gives the same state.
C30_DisjointConcurrentWrites ==
    /\ phase # "raised"
    /\ \A i, j \in DOMAIN log :
          ( /\ i # j
            /\ log[i].step = log[j].step
            /\ log[i].node # "router" /\ log[j].node # "router" ) =>
              (DOMAIN log[i].delta \cap DOMAIN log[j].delta) \subseteq {"errors"}
    /\ ~Conflict(finished, writes)
    /\ ApplyWrites(state, finished, writes) = ApplyWrites(state, Reverse(finished), writes)

\* download_step and curation_step have both returned in the first
\* superstep, the download with an error
C30_Witness ==
    /\ stepNo = 1
    /\ tasks = {}
    /\ Len(finished) = 2
    /\ ErrorsOf(writes["download_node"]) # <<>>
    /\ Len(writes["fetch_news_node"]["news_articles"]) >= 1

-----------------------------------------------------------------------------
(* C25 *)

\* positions of the results with a URL, and of those curation approved
WithUrl(c) ==
    {i \in DOMAIN log[c].info.result.value : log[c].info.result.value[i].link \notin {None, ""}}

Approved(c) == {i \in WithUrl(c) : log[c].info.curated[i] = "article"}

\* C25: in curation_step a result without URL, or whose curation returns
\* null or raises, adds nothing to errors and does not stop the loop: every
\* result with a URL is handed to process_news_article once, in search
\* order, and news_articles in the delta is the sequence of the approved
\* Articles in that order, never longer than the search results.
C25_CurationPerItem ==
    \A c \in Events("fetch_news_node") :
        LET rs   == log[c].info.result.value
            news == log[c].delta["news_articles"]
            sent == log[c].info.invoked
        IN /\ "errors" \notin DOMAIN log[c].delta
           /\ Len(news) = Cardinality(Approved(c))
           /\ Len(news) <= Len(rs)
           /\ \A i \in Approved(c) :
                 news[Cardinality({j \in Approved(c) : j <= i})] = NewsArticle(rs[i].link)
           /\ Len(sent) = Cardinality(WithUrl(c))
           /\ \A i \in WithUrl(c) :
                 sent[Cardinality({j \in WithUrl(c) : j <= i})] = rs[i].link

\* the first result raised in curation and the second was approved
C25_Witness ==
    \E c \in Events("fetch_news_node") :
        /\ log[c].info.result.value = <<[link |-> "http://b"], [link |-> "http://a"]>>
        /\ log[c].info.curated = <<"raise", "article">>
        /\ log[c].delta["news_articles"] = <<NewsArticle("http://a")>>
        /\ log[c].info.invoked = <<"http://b", "http://a">>

-----------------------------------------------------------------------------
(* C21 *)

\* the run log[m] ended by returning a final state with a report path
CompletedWithReport(m) ==
    /\ log[m].info.ran.kind = "return"
    /\ "final_report_path" \in DOMAIN log[m].info.ran.value
    /\ log[m].info.ran.value["final_report_path"] \notin {None, ""}

\* C21: main returns 0 exactly when run_workflow returned and the final
\* state has a non-empty final_report_path; every other completed run
\* gives a status that is not 0.
C21_ExitStatus ==
    \A m \in Events("main") :
        /\ log[m].info.result.kind = "return"
        /\ (log[m].info.result.value = 0) <=> CompletedWithReport(m)
        /\ (log[m].info.ran.kind = "return" /\ ~CompletedWithReport(m)) =>
              log[m].info.result.value = 1

\* a run that wrote a report and recorded an error at the same time
C21_Witness ==
    /\ phase = "exited"
    /\ \E m \in Events("main") :
          /\ log[m].info.result.value = 0
          /\ CompletedWithReport(m)
          /\ state["errors"] # <<>>

-----------------------------------------------------------------------------
(* C22 *)

\* C22: when an exception leaves run_workflow, main returns 1, does not
\* raise and announces no report; on a keyboard interrupt main returns 130;
\* in neither case is the status 0.
C22_RunFatal ==
    \A m \in Events("main") :
        log[m].info.ran.kind = "raise" =>
            /\ log[m].info.result.kind = "return"
            /\ log[m].info.result.report = None
            /\ log[m].info.result.value # 0
            /\ log[m].info.ran.value = "KeyboardInterrupt" => log[m].info.result.value = 130
            /\ log[m].info.ran.value = "Exception" => log[m].info.result.value = 1

\* the run was interrupted after the Report Task had returned a report path
C22_Witness ==
    /\ phase = "exited"
    /\ \E m \in Events("main") :
          /\ log[m].info.ran = Raise("KeyboardInterrupt")
          /\ log[m].info.result.value = 130
    /\ \E e \in Events("report_node") : "final_report_path" \in DOMAIN log[e].delta

-----------------------------------------------------------------------------
(* C24 *)

\* positions in calls of the calls of _rate_limit
Throttled == {k \in DOMAIN calls : calls[k].op = "_rate_limit"}

\* C24: two consecutive calls of _rate_limit return at least
\* 60 / api_calls_per_minute seconds apart, and every scrape and every LLM
\* call of process_news_article comes right after a call of _rate_limit of
\* its own.
C24_Throttle ==
    /\ \A i, j \in Throttled :
          i < j => calls[j].at - calls[i].at >= 60 \div api_calls_per_minute
    /\ \A k \in DOMAIN calls :
          calls[k].op \in {"scrape", "llm"} =>
              /\ k > 1
              /\ calls[k - 1].op = "_rate_limit"
              /\ calls[k - 1].at <= calls[k].at

\* the LLM call of an article came right after its scrape, so the throttle
\* had to wait before it
C24_Witness ==
    \E i, j \in Throttled :
        /\ j = i + 2
        /\ calls[i + 1].op = "scrape"
        /\ calls[j].info < calls[i].at + 60 \div api_calls_per_minute
        /\ calls[j].at >= calls[i].at + 60 \div api_calls_per_minute
        /\ Len(calls) > j /\ calls[j + 1].op = "llm"

-----------------------------------------------------------------------------
(* C28 *)

\* the report files in the directory when cleanup_old_reports was called
ReportsAtCleanup ==
    {f \in reported.before : f.prefix = "report_" /\ f.suffix = ".html"
                             /\ f.stamp # reported.report.stamp}
        \cup {reported.report}

ReportsLeft == {f \in output_dir : f.prefix = "report_" /\ f.suffix = ".html"}

\* C28: after an execution of the Report Task in which every deletion
\* succeeded, the output directory holds at most 3 report files, the report
\* just written among them; the files deleted are older by modification
\* time than every file kept; cleanup_old_reports returned the number of
\* files deleted, 0 when there were 3 or fewer; and no other file was
\* touched.
C28_AtMostThreeReports ==
    (reported.made /\ reported.failing = {}) =>
        /\ Cardinality(ReportsLeft) <= 3
        /\ reported.report \in ReportsLeft
        /\ ReportsLeft \subseteq ReportsAtCleanup
        /\ \A f \in ReportsAtCleanup \ ReportsLeft : \A g \in ReportsLeft : f.mtime < g.mtime
        /\ reported.returned = Cardinality(ReportsAtCleanup) - Cardinality(ReportsLeft)
        /\ Cardinality(ReportsAtCleanup) <= 3 => (reported.returned = 0 /\ ReportsLeft = ReportsAtCleanup)
        /\ Cardinality(ReportsAtCleanup) > 3 => Cardinality(ReportsLeft) = 3
        /\ output_dir \ ReportsLeft = reported.before \ {f \in reported.before : f.prefix = "report_" /\ f.suffix = ".html"}

\* five reports were there, two were deleted, and the oldest file by
\* modification time was not the one with the oldest name
C28_Witness ==
    /\ reported.made
    /\ reported.failing = {}
    /\ reported.returned = 2
    /\ Cardinality(ReportsLeft) = 3
    /\ \E f \in ReportsAtCleanup \ ReportsLeft : \E g \in ReportsLeft : f.stamp > g.stamp
    /\ output_dir \ ReportsLeft # {}

-----------------------------------------------------------------------------
(* C23 *)

HasReport(r) ==
    /\ "final_report_path" \in DOMAIN r.final
    /\ r.final["final_report_path"] \notin {None, ""}

\* C23 (as claimed): runs started from the same initial state with the same
\* collaborator outcomes agree on whether final_report_path is set and on
\* what the router answered, whatever an earlier run left behind.
C23_SameOutcomeAcrossRuns ==
    \A i, j \in DOMAIN runs :
        /\ HasReport(runs[i]) <=> HasReport(runs[j])
        /\ runs[i].routed = runs[j].routed

====
